---- MODULE Spec2Model ----
(***************************************************************************)
(* Entity status and status history of the state package (setStatus,       *)
(* getStatus, statusHistory, PruneStatusHistory and the insert / remove    *)
(* operations of a status document), over the statuses collection, the     *)
(* statuseshistory collection and the "statushistory" sequence.            *)
(***************************************************************************)
EXTENDS Integers, Sequences, FiniteSets, TLC

----------------------------------------------------------------------------
(* Bounds of the model.                                                    *)

\* calls of setStatus and createStatusOpWithExcitingSideEffect that are started
MaxCalls == 2
\* greatest value of the wall clock, in seconds
MaxNow == 2
\* greatest maxLogsPerEntity handed to PruneStatusHistory
MaxKeep == 2
\* greatest size handed to statusHistory
MaxSize == 2
\* greatest depth of nesting of the maps handed to escapeKeys on their own
MaxDepth == 1

----------------------------------------------------------------------------
(* Status data: nested maps with string keys.  A key is a sequence of      *)
(* characters; a map is a set of entries with distinct keys; a value is a  *)
(* leaf or a nested map.                                                   *)

\* "." and "$" are reserved by the store; "FF0E" and "FF04" stand for the
\* fullwidth characters U+FF0E and U+FF04 that replace them.
Chars == {"a", "b", ".", "$", "FF0E", "FF04"}

Leaf(x) == [isMap |-> FALSE, leaf |-> x, sub |-> {}]
Sub(m) == [isMap |-> TRUE, leaf |-> "", sub |-> m]
Entry(k, v) == [key |-> k, value |-> v]

escapeReplacer ==
  [c \in Chars |-> IF c = "." THEN "FF0E" ELSE IF c = "$" THEN "FF04" ELSE c]

unescapeReplacer ==
  [c \in Chars |-> IF c = "FF0E" THEN "." ELSE IF c = "FF04" THEN "$" ELSE c]

\* strings.Replacer.Replace for a table of single characters
Replace(tbl, key) == [i \in DOMAIN key |-> tbl[key[i]]]

\* mapKeys: the maps the loop can build.  Two keys that f sends to the same
\* key collide in result[f(key)] = value, and the range over a Go map visits
\* them in either order, so either value can be the one that stays.
RECURSIVE mapKeys(_, _)
mapKeys(tbl, input) ==
  LET keys == {Replace(tbl, e.key) : e \in input}
      values(e) == IF e.value.isMap
                     THEN {Sub(m) : m \in mapKeys(tbl, e.value.sub)}
                     ELSE {e.value}
      options(k) == UNION {values(e) : e \in {x \in input : Replace(tbl, x.key) = k}}
      all == UNION {options(k) : k \in keys}
  IN  {{Entry(k, g[k]) : k \in keys} :
         g \in {h \in [keys -> all] : \A k \in keys : h[k] \in options(k)}}

escapeKeys(input) == mapKeys(escapeReplacer, input)

\* unescapeKeys built on the replacer of escapeKeys
unescapeKeys_EscapeReplacer(input) == mapKeys(escapeReplacer, input)

unescapeKeys(input) == mapKeys(unescapeReplacer, input)

\* keys handed to escapeKeys on its own: plain ones, ones with reserved
\* characters, and ones that hold the escaped form of a reserved character
KeyPool ==
  { <<"a">>, <<".">>, <<"$">>, <<"a", ".", "b">>, <<"FF0E">>, <<"a", "FF04">> }

LeafPool == {Leaf("x"), Leaf("y")}

\* maps without nesting, of up to two entries
FlatMaps ==
  {{}} \cup {{Entry(k, v)} : k \in KeyPool, v \in LeafPool}
       \cup {{Entry(k[1], v[1]), Entry(k[2], v[2])} :
               k \in {x \in KeyPool \X KeyPool : x[1] # x[2]},
               v \in LeafPool \X LeafPool}

\* maps nested to depth d: the maps without nesting, a map nested one level
\* less under each key, and such a map next to a value that is no map
RECURSIVE Maps(_)
Maps(d) ==
  IF d = 0 THEN FlatMaps
  ELSE Maps(d - 1)
         \cup {{Entry(k, Sub(m))} : k \in KeyPool, m \in Maps(d - 1)}
         \cup {{Entry(k[1], Leaf("x")), Entry(k[2], Sub(m))} :
                 k \in {x \in KeyPool \X KeyPool : x[1] # x[2]},
                 m \in {{Entry(j, Leaf("y"))} : j \in KeyPool}}

----------------------------------------------------------------------------
(* The entities, the callers and the values they hand in.                  *)

\* global keys: a unit and a service
Keys == {"u#wp/0", "s#wp"}

\* the badge the callers of setStatus and getStatus use for the entity
badgeOf == [k \in Keys |-> IF k = "s#wp" THEN "service" ELSE "unit"]

\* concurrent callers of setStatus and createStatusOpWithExcitingSideEffect
Procs == {"w1", "w2"}

\* (status, message, rawData) as handed to setStatus.  The keys of rawData
\* "are assumed not to have been escaped" (setStatusParams.rawData): they
\* hold reserved characters, and no escaped form of one.
StatusArgs ==
  { [status |-> "active", message |-> "", rawData |-> {}],
    [status |-> "error", message |-> "hook failed",
     rawData |-> {Entry(<<"a", ".", "b">>, Sub({Entry(<<"$">>, Leaf("x"))}))}] }

NoArgs == [status |-> "", message |-> "", rawData |-> {}]

\* the arguments of setStatus that left a document without data
StatusArgsOf(doc) == [status |-> doc.Status, message |-> doc.StatusInfo, rawData |-> {}]

----------------------------------------------------------------------------
(* State.                                                                  *)

VARIABLES
  statuses,   \* statusesC: document id -> statusDoc, for the ids that exist
  txnRevno,   \* the txn-revno the store keeps for each id of statusesC
  history,    \* statusesHistoryC: the historicalStatusDocs, in insertion order
  seq,        \* the "statushistory" sequence: the next value it returns
  now,        \* the wall clock, in seconds
  leader,     \* whether the leadership token handed to callers is still valid
  call,       \* each caller's call in flight: position and locals (and, as
              \* history, whether its transaction source found no document
              \* and whether its history write failed)
  ncalls,     \* calls started so far
  pruner,     \* the call of PruneStatusHistory in flight: position and locals
              \* (and, as history, the collection when it began, whether no
              \* writer inserted since, whether a store operation failed,
              \* whether it began where a call like it had just returned)
  returned,   \* the call that has just returned, with its arguments and result
  lastSet,    \* history variable: per key, the arguments of the latest successful
              \* setStatus since the document was last inserted or removed
  applied     \* history variable: per key, the txn-revno that each applied
              \* update of setStatus was built from, in the order of the updates

vars == <<statuses, txnRevno, history, seq, now, leader, call, ncalls, pruner,
          returned, lastSet, applied>>

NoErr == [kind |-> "nil", badge |-> ""]
NotFoundf(badge) == [kind |-> "not found", badge |-> badge]
\* the error of token.Check, annotated "prerequisites failed"
ErrInvalidated == [kind |-> "prerequisites failed", badge |-> ""]
ErrStore == [kind |-> "store", badge |-> ""]

NoDoc == [Status |-> "", StatusInfo |-> "", StatusData |-> {}, Updated |-> 0,
          NeverSet |-> FALSE]

\* statusDoc (EnvUUID is left out: it is the same in every document)
statusDoc(status, info, data, updated, neverSet) ==
  [Status |-> status, StatusInfo |-> info, StatusData |-> data,
   Updated |-> updated, NeverSet |-> neverSet]

\* historicalStatusDoc, as probablyUpdateStatusHistory fills it in
historicalStatusDoc(id, globalKey, doc) ==
  [Id |-> id, EntityId |-> globalKey, Status |-> doc.Status,
   StatusInfo |-> doc.StatusInfo, StatusData |-> doc.StatusData,
   Updated |-> doc.Updated]

StatusInfo(status, message, data, since) ==
  [Status |-> status, Message |-> message, Data |-> data, Since |-> since]

NoInfo == StatusInfo("", "", {}, 0)

idleCall ==
  [pc |-> "idle", op |-> "", globalKey |-> "", badge |-> "",
   args |-> NoArgs, token |-> FALSE, invalidAtStart |-> FALSE, doc |-> NoDoc,
   id |-> -1, ops |-> <<>>, missing |-> FALSE, histFailed |-> FALSE]

idlePruner ==
  [pc |-> "idle", maxLogsPerEntity |-> 0, globalKeys |-> <<>>, i |-> 0,
   keepUpTo |-> -1, err |-> NoErr, before |-> <<>>, alone |-> TRUE,
   failed |-> FALSE, again |-> FALSE]

\* no call has just returned
noReturn ==
  [op |-> "", globalKey |-> "", badge |-> "", args |-> NoArgs, token |-> FALSE,
   invalidAtStart |-> FALSE, doc |-> NoDoc, id |-> -1, ops |-> <<>>, size |-> 0,
   missing |-> FALSE, histFailed |-> FALSE, err |-> NoErr, info |-> NoInfo,
   docs |-> <<>>, infos |-> <<>>, before |-> <<>>, alone |-> FALSE,
   globalKeys |-> <<>>, i |-> 0, failed |-> FALSE, again |-> FALSE]

\* the return of a call of setStatus or of the caller of a create operation
returnOf(c, err) ==
  [noReturn EXCEPT !.op = c.op, !.globalKey = c.globalKey, !.badge = c.badge,
                   !.args = c.args, !.token = c.token,
                   !.invalidAtStart = c.invalidAtStart, !.doc = c.doc, !.id = c.id,
                   !.ops = c.ops, !.missing = c.missing,
                   !.histFailed = c.histFailed, !.err = err]

\* the entity that exists from the start, and the status document and the
\* history document its creation left
FirstKey == "u#wp/0"
firstDoc == statusDoc("pending", "", {}, 0, FALSE)

\* the state after the first entity was added: its status document inserted by
\* the operation of createStatusOpWithExcitingSideEffect, its history document
\* written with the first value of the sequence; the other entity does not exist
Init ==
  /\ statuses = [k \in {FirstKey} |-> firstDoc]
  /\ txnRevno = [k \in Keys |-> IF k = FirstKey THEN 1 ELSE 0]
  /\ history = <<historicalStatusDoc(0, FirstKey, firstDoc)>>
  /\ seq = 1
  /\ now = 0
  /\ leader = TRUE
  /\ call = [p \in Procs |-> idleCall]
  /\ ncalls = 0
  /\ pruner = idlePruner
  /\ returned = noReturn
  /\ lastSet = [k \in Keys |-> {}]
  /\ applied = [k \in Keys |-> <<>>]

----------------------------------------------------------------------------
(* The store: transactions over statusesC, the sequence, the token.        *)

statusesC == "statuses"
leadersC == "leadership"

\* mgo.ErrNotFound
ErrNotFound == [kind |-> "mgo: not found", badge |-> ""]

\* a txn.Op
Op(c, id, assert, revno, insert, update, remove) ==
  [C |-> c, Id |-> id, Assertion |-> assert, revno |-> revno, Insert |-> insert,
   Update |-> update, Remove |-> remove]

\* whether the assertion of a txn.Op holds in the store
AssertionHolds(op) ==
  CASE op.Assertion = "DocMissing" -> op.Id \notin DOMAIN statuses
    [] op.Assertion = "txn-revno" ->
         op.Id \in DOMAIN statuses /\ txnRevno[op.Id] = op.revno
    [] op.Assertion = "DocExists" -> op.Id \in DOMAIN statuses
    [] op.Assertion = "leader" -> leader
    [] OTHER -> TRUE

\* statusDoc with omitempty on the tag of NeverSet: a false flag is left out
\* of the marshalled document
bsonFields_OmitEmptyNeverSet(doc) ==
  {f \in DOMAIN doc : f = "NeverSet" => doc.NeverSet}

\* the fields of a statusDoc that are marshalled: each field has a bson tag,
\* none with omitempty
bsonFields(doc) == DOMAIN doc

\* {"$set", &doc} applied to a document: the marshalled fields of doc are
\* set, the others are left as they are
Set(old, doc) ==
  [f \in DOMAIN old |-> IF f \in bsonFields(doc) THEN doc[f] ELSE old[f]]

\* the statuses collection after the change of one txn.Op
ApplyOp(op, docs) ==
  IF op.C # statusesC THEN docs
  ELSE IF op.Insert # {} /\ op.Id \notin DOMAIN docs
    THEN [k \in DOMAIN docs \cup {op.Id} |->
            IF k = op.Id THEN CHOOSE d \in op.Insert : TRUE ELSE docs[k]]
  ELSE IF op.Update # {} /\ op.Id \in DOMAIN docs
    THEN [docs EXCEPT ![op.Id] = Set(@, CHOOSE d \in op.Update : TRUE)]
  ELSE IF op.Remove /\ op.Id \in DOMAIN docs
    THEN [k \in DOMAIN docs \ {op.Id} |-> docs[k]]
  ELSE docs

RECURSIVE ApplyOps(_, _)
ApplyOps(ops, docs) ==
  IF ops = <<>> THEN docs ELSE ApplyOps(Tail(ops), ApplyOp(Head(ops), docs))

\* the ids of statusesC that a transaction changes
Touched(ops) ==
  {k \in Keys : \E i \in DOMAIN ops :
     /\ ops[i].C = statusesC /\ ops[i].Id = k
     /\ ApplyOp(ops[i], statuses) # statuses}

\* st.readTxnRevno
readTxnRevno(globalKey) ==
  IF globalKey \in DOMAIN statuses
    THEN [revno |-> txnRevno[globalKey], err |-> NoErr]
    ELSE [revno |-> 0, err |-> ErrNotFound]

\* token.Check: the error, and the prerequisite operations it hands back
tokenCheck ==
  IF leader
    THEN [ops |-> <<Op(leadersC, "", "leader", 0, {}, {}, FALSE)>>, err |-> NoErr]
    ELSE [ops |-> <<>>, err |-> ErrInvalidated]

\* wrapSource: the conditional update that buildTxn built, composed with the
\* check of the token
wrapSource(source) ==
  IF source.err # NoErr THEN source
  ELSE IF tokenCheck.err # NoErr THEN [ops |-> <<>>, err |-> tokenCheck.err]
  ELSE [ops |-> tokenCheck.ops \o source.ops, err |-> NoErr]

\* st.run, on the operations a transaction source built: the error it returns.
\* The store reports a failed assertion in the class of not found.
runErr(ops) ==
  IF \A i \in DOMAIN ops : AssertionHolds(ops[i]) THEN NoErr ELSE ErrNotFound

\* st.run: the store after the transaction (unchanged when it is aborted)
Run(ops) ==
  /\ statuses' = IF runErr(ops) = NoErr THEN ApplyOps(ops, statuses) ELSE statuses
  /\ txnRevno' = IF runErr(ops) = NoErr
                   THEN [k \in Keys |->
                           IF k \in Touched(ops) THEN txnRevno[k] + 1 ELSE txnRevno[k]]
                   ELSE txnRevno

----------------------------------------------------------------------------
(* setStatus and createStatusOpWithExcitingSideEffect.                     *)

Min(a, b) == IF a < b THEN a ELSE b

\* nowToTheSecond: the clock is read by the callers alone, and each reading
\* is a second later than the last one, up to MaxNow
nowToTheSecond == Min(now + 1, MaxNow)

\* updateStatusSource without the assertion on the txn-revno it read
updateStatusSource_Unguarded(globalKey, doc) ==
  LET r == readTxnRevno(globalKey)
  IN  IF r.err # NoErr THEN [ops |-> <<>>, err |-> r.err]
      ELSE [ops |-> <<Op(statusesC, globalKey, "", r.revno, {}, {doc}, FALSE)>>,
            err |-> NoErr]

\* updateStatusSource asserting txn.DocExists in place of the txn-revno
updateStatusSource_DocExists(globalKey, doc) ==
  LET r == readTxnRevno(globalKey)
  IN  IF r.err # NoErr THEN [ops |-> <<>>, err |-> r.err]
      ELSE [ops |-> <<Op(statusesC, globalKey, "DocExists", r.revno, {}, {doc}, FALSE)>>,
            err |-> NoErr]

\* updateStatusSource: what the transaction source builds when it is called
updateStatusSource(globalKey, doc) ==
  LET r == readTxnRevno(globalKey)
  IN  IF r.err # NoErr THEN [ops |-> <<>>, err |-> r.err]
      ELSE [ops |-> <<Op(statusesC, globalKey, "txn-revno", r.revno, {}, {doc}, FALSE)>>,
            err |-> NoErr]

\* createStatusOpWithExcitingSideEffect returning an operation that asserts
\* nothing
createStatusOp_Unguarded(globalKey, doc) ==
  Op(statusesC, globalKey, "", 0, {doc}, {}, FALSE)

\* the operation createStatusOpWithExcitingSideEffect returns
createStatusOp(globalKey, doc) ==
  Op(statusesC, globalKey, "DocMissing", 0, {doc}, {}, FALSE)

removeStatusOp(globalKey) == Op(statusesC, globalKey, "", 0, {}, {}, TRUE)

\* setStatus returning the error of st.run as it is
setStatusErr_AsIs(err, badge) == err

\* the error setStatus returns for the error of st.run
setStatusErr(err, badge) == IF err = ErrNotFound THEN NotFoundf(badge) ELSE err

\* a step of a call that goes on: the result of the call that had just
\* returned is with its caller now
Step(p, c) ==
  /\ call' = [call EXCEPT ![p] = c]
  /\ returned' = noReturn

\* the last step of a call: it returns err and its caller is free again
Return(p, err) ==
  /\ call' = [call EXCEPT ![p] = idleCall]
  /\ returned' = returnOf(call[p], err)

\* probablyUpdateStatusHistory filing the document under the key of the first
\* entity
historyDocOf_FirstKey(c) == historicalStatusDoc(c.id, FirstKey, c.doc)

\* probablyUpdateStatusHistory leaving the Id of the document unset
historyDocOf_NoId(c) == historicalStatusDoc(0, c.globalKey, c.doc)

\* the history document probablyUpdateStatusHistory inserts
historyDocOf(c) == historicalStatusDoc(c.id, c.globalKey, c.doc)

\* where a call goes on after probablyUpdateStatusHistory
afterHistory(c) == IF c.op = "setStatus" THEN "build" ELSE "op"

\* the first step of a call that leaves the history write out
Begin_NoInsert(p, c, split) ==
  /\ Step(p, [c EXCEPT !.id = seq, !.pc = afterHistory(c)])
  /\ seq' = seq + 1
  /\ now' = nowToTheSecond
  /\ ncalls' = ncalls + 1
  /\ UNCHANGED <<history, pruner>>

\* The first step of a call c: st.sequence hands out the identifier of its
\* history document.  With split, the insert of the document is a step of its
\* own (HistoryInsert), and steps of other calls can come between the two;
\* without, the document is inserted here.  The insert changes the history
\* collection alone.
Begin(p, c, split) ==
  /\ Step(p, [c EXCEPT !.id = seq,
                       !.pc = IF split THEN "insert" ELSE afterHistory(c)])
  /\ seq' = seq + 1
  /\ now' = nowToTheSecond
  /\ ncalls' = ncalls + 1
  /\ history' = IF split THEN history
                ELSE Append(history, historyDocOf([c EXCEPT !.id = seq]))
  /\ pruner' = IF split \/ pruner.pc = "idle" THEN pruner
               ELSE [pruner EXCEPT !.alone = FALSE]

\* setStatus filling StatusInfo with the status in place of the message
setStatusDoc_StatusAsInfo(args, data, t) ==
  statusDoc(args.status, args.status, data, t, FALSE)

\* the statusDoc that setStatus builds from its parameters, with the escaped
\* data and the time
setStatusDoc(args, data, t) == statusDoc(args.status, args.message, data, t, FALSE)

\* setStatus, to the insert of probablyUpdateStatusHistory: the document is
\* built and st.sequence hands out the identifier of its history document
SetStatusBegin(p, keys, args, tokens, split) ==
  /\ call[p].pc = "idle"
  /\ ncalls < MaxCalls
  /\ \E k \in keys, a \in args, tok \in tokens :
     \E d \in escapeKeys(a.rawData) :
       Begin(p, [idleCall EXCEPT
                   !.op = "setStatus", !.globalKey = k, !.badge = badgeOf[k],
                   !.args = a, !.token = tok, !.invalidAtStart = (tok /\ ~leader),
                   !.doc = setStatusDoc(a, d, nowToTheSecond)],
             split)
  /\ UNCHANGED <<statuses, txnRevno, leader, lastSet, applied>>

\* the documents a caller hands to createStatusOpWithExcitingSideEffect
\* (the document of a service, whose status was never set)
CreateDocs(t) == { statusDoc("unknown", "waiting", {}, t, TRUE) }

\* createStatusOpWithExcitingSideEffect, to the insert of
\* probablyUpdateStatusHistory
CreateStatusBegin(p, keys, split) ==
  /\ call[p].pc = "idle"
  /\ ncalls < MaxCalls
  /\ \E k \in keys, doc \in CreateDocs(nowToTheSecond) :
       Begin(p, [idleCall EXCEPT !.op = "create", !.globalKey = k, !.doc = doc],
             split)
  /\ UNCHANGED <<statuses, txnRevno, leader, lastSet, applied>>

\* probablyUpdateStatusHistory: the insert into statusesHistoryC
HistoryInsert(p) ==
  /\ call[p].pc = "insert"
  /\ Step(p, [call[p] EXCEPT !.pc = afterHistory(call[p])])
  /\ history' = Append(history, historyDocOf(call[p]))
  /\ pruner' = IF pruner.pc = "idle" THEN pruner ELSE [pruner EXCEPT !.alone = FALSE]
  /\ UNCHANGED <<statuses, txnRevno, seq, now, leader, ncalls, lastSet, applied>>

\* setStatus checking the token when the update is built, and running the
\* update without the operations of the token
buildTxn_CheckedOnce(c) ==
  IF c.token /\ tokenCheck.err # NoErr THEN [ops |-> <<>>, err |-> tokenCheck.err]
  ELSE updateStatusSource(c.globalKey, c.doc)

\* setStatus never wrapping its transaction source
buildTxn_NoToken(c) == updateStatusSource(c.globalKey, c.doc)

\* probablyUpdateStatusHistory handing the error of st.sequence to setStatus,
\* which returns it
BeginSequenceFails_Returns(p, c) ==
  /\ call' = call
  /\ returned' = returnOf([c EXCEPT !.histFailed = TRUE], ErrStore)
  /\ now' = nowToTheSecond
  /\ ncalls' = ncalls + 1
  /\ UNCHANGED <<seq, history, pruner>>

\* The first step of a call c when st.sequence fails: the error is logged,
\* probablyUpdateStatusHistory returns without an insert, and the call goes on.
BeginSequenceFails(p, c) ==
  /\ Step(p, [c EXCEPT !.pc = afterHistory(c), !.histFailed = TRUE])
  /\ now' = nowToTheSecond
  /\ ncalls' = ncalls + 1
  /\ UNCHANGED <<seq, history, pruner>>

\* setStatus, with a failure of st.sequence in probablyUpdateStatusHistory
SetStatusBeginSequenceFails(p, keys, args) ==
  /\ call[p].pc = "idle"
  /\ ncalls < MaxCalls
  /\ \E k \in keys, a \in args :
     \E d \in escapeKeys(a.rawData) :
       BeginSequenceFails(p, [idleCall EXCEPT
                   !.op = "setStatus", !.globalKey = k, !.badge = badgeOf[k],
                   !.args = a, !.doc = setStatusDoc(a, d, nowToTheSecond)])
  /\ UNCHANGED <<statuses, txnRevno, leader, lastSet, applied>>

\* probablyUpdateStatusHistory: the insert into statusesHistoryC fails; the
\* error is logged and the call goes on
HistoryInsertFails(p) ==
  /\ call[p].pc = "insert"
  /\ Step(p, [call[p] EXCEPT !.pc = afterHistory(call[p]), !.histFailed = TRUE])
  /\ UNCHANGED <<statuses, txnRevno, history, seq, now, leader, ncalls, pruner,
                 lastSet, applied>>

\* the transaction source of setStatus: updateStatusSource, wrapped when
\* params.token is present
buildTxn(c) ==
  IF c.token THEN wrapSource(updateStatusSource(c.globalKey, c.doc))
  ELSE updateStatusSource(c.globalKey, c.doc)

\* setStatus, in st.run: the transaction source builds the operations; an
\* error of the source ends the call
SetStatusBuild(p) ==
  /\ call[p].pc = "build"
  /\ LET b == buildTxn(call[p])
         c == [call[p] EXCEPT !.missing = (call[p].globalKey \notin DOMAIN statuses)]
     IN  IF b.err # NoErr
           THEN /\ call' = [call EXCEPT ![p] = idleCall]
                /\ returned' = returnOf(c, setStatusErr(b.err, c.badge))
           ELSE Step(p, [c EXCEPT !.pc = "run", !.ops = b.ops])
  /\ UNCHANGED <<statuses, txnRevno, history, seq, now, leader, ncalls, pruner,
                 lastSet, applied>>

\* the txn-revno that the update of a call was built from
builtFrom(c) == c.ops[Len(c.ops)].revno

\* setStatus running the update without the operations of the token, and
\* checking the token after the update
SetStatusRun_TokenAfter(p) ==
  /\ call[p].pc = "run"
  /\ LET ops == SelectSeq(call[p].ops, LAMBDA o : o.C = statusesC)
         err == IF runErr(ops) # NoErr THEN runErr(ops)
                ELSE IF call[p].token THEN tokenCheck.err ELSE NoErr
         k == call[p].globalKey
     IN  /\ Run(ops)
         /\ Return(p, setStatusErr(err, call[p].badge))
         /\ lastSet' = IF err = NoErr THEN [lastSet EXCEPT ![k] = {call[p].args}]
                       ELSE lastSet
         /\ applied' = IF runErr(ops) = NoErr
                         THEN [applied EXCEPT ![k] = Append(@, builtFrom(call[p]))]
                         ELSE applied
  /\ UNCHANGED <<history, seq, now, leader, ncalls, pruner>>

\* setStatus, in st.run: the transaction is run, and setStatus returns
SetStatusRun(p) ==
  /\ call[p].pc = "run"
  /\ Run(call[p].ops)
  /\ LET err == runErr(call[p].ops)
         k == call[p].globalKey
     IN  /\ Return(p, setStatusErr(err, call[p].badge))
         /\ lastSet' = IF err = NoErr THEN [lastSet EXCEPT ![k] = {call[p].args}]
                       ELSE lastSet
         /\ applied' = IF err = NoErr
                         THEN [applied EXCEPT ![k] = Append(@, builtFrom(call[p]))]
                         ELSE applied
  /\ UNCHANGED <<history, seq, now, leader, ncalls, pruner>>

\* the caller of createStatusOpWithExcitingSideEffect runs the operation it got
CreateStatusRun(p) ==
  /\ call[p].pc = "op"
  /\ LET ops == <<createStatusOp(call[p].globalKey, call[p].doc)>>
     IN  /\ Run(ops)
         /\ call' = [call EXCEPT ![p] = idleCall]
         /\ returned' = returnOf([call[p] EXCEPT !.ops = ops], runErr(ops))
         /\ lastSet' = IF runErr(ops) = NoErr
                         THEN [lastSet EXCEPT ![call[p].globalKey] = {}]
                         ELSE lastSet
  /\ UNCHANGED <<history, seq, now, leader, ncalls, pruner, applied>>

\* the caller of createStatusOpWithExcitingSideEffect drops the operation
CreateStatusDrop(p) ==
  /\ call[p].pc = "op"
  /\ Return(p, NoErr)
  /\ UNCHANGED <<statuses, txnRevno, history, seq, now, leader, ncalls, pruner,
                 lastSet, applied>>

\* the removal of a status document taking the history documents of the
\* entity with it
RemoveStatus_WithHistory(k) ==
  /\ Run(<<removeStatusOp(k)>>)
  /\ lastSet' = [lastSet EXCEPT ![k] = {}]
  /\ returned' = noReturn
  /\ history' = SelectSeq(history, LAMBDA d : d.EntityId # k)
  /\ UNCHANGED <<seq, now, leader, call, ncalls, pruner, applied>>

\* the entity is destroyed: the operation of removeStatusOp is run
RemoveStatus(k) ==
  /\ Run(<<removeStatusOp(k)>>)
  /\ lastSet' = [lastSet EXCEPT ![k] = {}]
  /\ returned' = noReturn
  /\ UNCHANGED <<history, seq, now, leader, call, ncalls, pruner, applied>>

\* the leadership behind the token is lost
LoseLeadership ==
  /\ leader
  /\ leader' = FALSE
  /\ returned' = noReturn
  /\ UNCHANGED <<statuses, txnRevno, history, seq, now, call, ncalls, pruner,
                 lastSet, applied>>

----------------------------------------------------------------------------
(* getStatus and statusHistory.                                            *)

\* getStatus naming the global key in its not-found error
getStatus_KeyBadge(globalKey, badge) ==
  IF globalKey \notin DOMAIN statuses
    THEN {[err |-> NotFoundf(globalKey), info |-> NoInfo]}
    ELSE LET doc == statuses[globalKey]
         IN  {[err |-> NoErr,
               info |-> StatusInfo(doc.Status, doc.StatusInfo, d, doc.Updated)] :
                d \in unescapeKeys(doc.StatusData)}

\* getStatus returning the stored data without unescapeKeys
getStatus_NoUnescape(globalKey, badge) ==
  IF globalKey \notin DOMAIN statuses
    THEN {[err |-> NotFoundf(badge), info |-> NoInfo]}
    ELSE LET doc == statuses[globalKey]
         IN  {[err |-> NoErr,
               info |-> StatusInfo(doc.Status, doc.StatusInfo, doc.StatusData,
                                   doc.Updated)]}

\* getStatus: the results it can return (the error is annotated "cannot get
\* status" and keeps its cause)
getStatus(globalKey, badge) ==
  IF globalKey \notin DOMAIN statuses
    THEN {[err |-> NotFoundf(badge), info |-> NoInfo]}
    ELSE LET doc == statuses[globalKey]
         IN  {[err |-> NoErr,
               info |-> StatusInfo(doc.Status, doc.StatusInfo, d, doc.Updated)] :
                d \in unescapeKeys(doc.StatusData)}

GetStatus ==
  /\ \E k \in Keys :
       \E badge \in {badgeOf[k]}, r \in getStatus(k, badgeOf[k]) :
         returned' = [noReturn EXCEPT !.op = "getStatus", !.globalKey = k,
                                      !.badge = badge, !.err = r.err, !.info = r.info]
  /\ UNCHANGED <<statuses, txnRevno, history, seq, now, leader, call, ncalls,
                 pruner, lastSet, applied>>

\* Find(bson.D{{"entityid", globalKey}}): the documents of one entity
Find(coll, globalKey) ==
  {coll[i] : i \in {j \in DOMAIN coll : coll[j].EntityId = globalKey}}

\* Sort("-_id"): the documents of a set, greatest identifier first
RECURSIVE SortDescId(_)
SortDescId(docs) ==
  IF docs = {} THEN <<>>
  ELSE LET top == CHOOSE d \in docs : \A e \in docs : e.Id <= d.Id
       IN  <<top>> \o SortDescId(docs \ {top})

\* Limit(n): at most n documents; a limit of 0 is no limit
Limit(docs, n) == IF n = 0 THEN docs ELSE SubSeq(docs, 1, Min(n, Len(docs)))

\* Skip(n)
Skip(docs, n) == SubSeq(docs, n + 1, Len(docs))

\* statusHistory querying the documents of every entity
statusHistoryDocs_AllEntities(globalKey, size) ==
  Limit(SortDescId({history[i] : i \in DOMAIN history}), size)

\* statusHistory: the documents its query returns
statusHistoryDocs(globalKey, size) ==
  Limit(SortDescId(Find(history, globalKey)), size)

\* statusHistory: the results it can return for the documents of its query
RECURSIVE statusHistoryResults(_)
statusHistoryResults(docs) ==
  IF docs = <<>> THEN {<<>>}
  ELSE LET doc == Head(docs)
       IN  {<<StatusInfo(doc.Status, doc.StatusInfo, d, doc.Updated)>> \o rest :
              d \in unescapeKeys(doc.StatusData),
              rest \in statusHistoryResults(Tail(docs))}

StatusHistory ==
  /\ \E k \in Keys, size \in 0..MaxSize :
       LET docs == statusHistoryDocs(k, size)
       IN  \E r \in statusHistoryResults(docs) :
             returned' = [noReturn EXCEPT !.op = "statusHistory", !.globalKey = k,
                                          !.size = size, !.docs = docs, !.infos = r]
  /\ UNCHANGED <<statuses, txnRevno, history, seq, now, leader, call, ncalls,
                 pruner, lastSet, applied>>

----------------------------------------------------------------------------
(* PruneStatusHistory.                                                     *)

\* the orders in which Distinct can list the members of a set
Orders(S) ==
  {o \in [1..Cardinality(S) -> S] : \A i, j \in DOMAIN o : o[i] = o[j] => i = j}

\* getEntitiesWithStatuses: the entity ids of the collection, in some order
getEntitiesWithStatuses(coll) == Orders({coll[i].EntityId : i \in DOMAIN coll})

\* getOldestTimeToKeep skipping size documents in place of size - 1
getOldestTimeToKeep_SkipSize(coll, globalKey, size) ==
  LET rest == Skip(SortDescId(Find(coll, globalKey)), size)
  IN  IF rest = <<>> THEN [id |-> -1, ok |-> FALSE]
      ELSE [id |-> rest[1].Id, ok |-> TRUE]

\* getOldestTimeToKeep sorting by "_id" in place of "-_id"
getOldestTimeToKeep_SortAscending(coll, globalKey, size) ==
  LET desc == SortDescId(Find(coll, globalKey))
      rest == Skip([i \in 1..Len(desc) |-> desc[Len(desc) + 1 - i]], size - 1)
  IN  IF rest = <<>> THEN [id |-> -1, ok |-> FALSE]
      ELSE [id |-> rest[1].Id, ok |-> TRUE]

\* getOldestTimeToKeep: (identifier, ok)
getOldestTimeToKeep(coll, globalKey, size) ==
  LET rest == Skip(SortDescId(Find(coll, globalKey)), size - 1)
  IN  IF rest = <<>> THEN [id |-> -1, ok |-> FALSE]
      ELSE [id |-> rest[1].Id, ok |-> TRUE]

\* RemoveAll without the entityid of its selector
RemoveAll_AllEntities(coll, globalKey, keepUpTo) ==
  SelectSeq(coll, LAMBDA d : ~(d.Id < keepUpTo))

\* RemoveAll with $lte in place of $lt
RemoveAll_Lte(coll, globalKey, keepUpTo) ==
  SelectSeq(coll, LAMBDA d : ~(d.EntityId = globalKey /\ d.Id <= keepUpTo))

\* RemoveAll(entityid = globalKey, _id < keepUpTo)
RemoveAll(coll, globalKey, keepUpTo) ==
  SelectSeq(coll, LAMBDA d : ~(d.EntityId = globalKey /\ d.Id < keepUpTo))

\* a step of PruneStatusHistory: it goes on as c, or c is how it returns
PrunerStep(c) ==
  /\ pruner' = IF c.pc = "done" THEN idlePruner ELSE c
  /\ returned' = IF c.pc = "done"
                   THEN [noReturn EXCEPT !.op = "PruneStatusHistory",
                                         !.size = c.maxLogsPerEntity, !.err = c.err,
                                         !.before = c.before, !.alone = c.alone,
                                         !.globalKeys = c.globalKeys, !.i = c.i,
                                         !.failed = c.failed, !.again = c.again]
                   ELSE noReturn
  /\ UNCHANGED <<statuses, txnRevno, seq, now, leader, call, ncalls, lastSet, applied>>

\* the pruner at entity i of its list, or done after the last one
atEntity(c, i) ==
  IF i > Len(c.globalKeys) THEN [c EXCEPT !.pc = "done", !.i = i]
  ELSE [c EXCEPT !.pc = "oldest", !.i = i]

\* whether a call of PruneStatusHistory(n) has just returned, without an error
\* and with no insert of a writer since it began
justPruned(n) ==
  /\ returned.op = "PruneStatusHistory" /\ returned.size = n
  /\ ~returned.failed /\ returned.alone

\* PruneStatusHistory, to the loop: the entities are listed
PruneBegin ==
  /\ pruner.pc = "idle"
  /\ \E n \in 1..MaxKeep, keys \in getEntitiesWithStatuses(history) :
       PrunerStep(atEntity([idlePruner EXCEPT !.maxLogsPerEntity = n,
                                              !.globalKeys = keys,
                                              !.before = history,
                                              !.again = justPruned(n)], 1))
  /\ UNCHANGED history

\* getEntitiesWithStatuses fails: PruneStatusHistory returns the error
PruneListFails ==
  /\ pruner.pc = "idle"
  /\ \E n \in 1..MaxKeep :
       PrunerStep([idlePruner EXCEPT !.pc = "done", !.maxLogsPerEntity = n,
                                     !.before = history, !.err = ErrStore,
                                     !.failed = TRUE])
  /\ UNCHANGED history

\* the loop: getOldestTimeToKeep for the entity
PruneOldest ==
  /\ pruner.pc = "oldest"
  /\ LET r == getOldestTimeToKeep(history, pruner.globalKeys[pruner.i],
                                  pruner.maxLogsPerEntity)
     IN  IF r.ok THEN PrunerStep([pruner EXCEPT !.pc = "remove", !.keepUpTo = r.id])
         ELSE PrunerStep(atEntity(pruner, pruner.i + 1))
  /\ UNCHANGED history

\* PruneStatusHistory going on with the next entity when getOldestTimeToKeep
\* fails
PruneOldestFails_Continue ==
  /\ pruner.pc = "oldest"
  /\ PrunerStep([atEntity(pruner, pruner.i + 1) EXCEPT !.failed = TRUE])
  /\ UNCHANGED history

\* getOldestTimeToKeep fails: PruneStatusHistory returns the error
PruneOldestFails ==
  /\ pruner.pc = "oldest"
  /\ PrunerStep([pruner EXCEPT !.pc = "done", !.err = ErrStore, !.failed = TRUE])
  /\ UNCHANGED history

\* the loop: RemoveAll for the entity
PruneRemove ==
  /\ pruner.pc = "remove"
  /\ history' = RemoveAll(history, pruner.globalKeys[pruner.i], pruner.keepUpTo)
  /\ PrunerStep(atEntity(pruner, pruner.i + 1))

\* RemoveAll fails: PruneStatusHistory returns the error
PruneRemoveFails ==
  /\ pruner.pc = "remove"
  /\ PrunerStep([pruner EXCEPT !.pc = "done", !.err = ErrStore, !.failed = TRUE])
  /\ UNCHANGED history

----------------------------------------------------------------------------

\* setStatus, createStatusOpWithExcitingSideEffect and the callers of the
\* operations, with a store that does not fail
Writers(keys, args, tokens, split) ==
  \/ \E p \in Procs : SetStatusBegin(p, keys, args, tokens, split)
  \/ \E p \in Procs : CreateStatusBegin(p, keys, split)
  \/ \E p \in Procs : SetStatusBuild(p)
  \/ \E p \in Procs : SetStatusRun(p)
  \/ \E p \in Procs : CreateStatusRun(p)
  \/ \E p \in Procs : CreateStatusDrop(p)

\* The status documents: concurrent writers, the removal of documents, the
\* loss of leadership, and getStatus.
Next ==
  \/ Writers(Keys, StatusArgs, BOOLEAN, FALSE)
  \/ \E k \in Keys : RemoveStatus(k)
  \/ LoseLeadership
  \/ GetStatus

Spec == Init /\ [][Next]_vars

\* the arguments of the writers of the status history
HistoryArgs == {a \in StatusArgs : a.status = "error"}

\* PruneStatusHistory, with a store that does not fail
Pruner ==
  \/ PruneBegin
  \/ PruneOldest
  \/ PruneRemove

\* The status history: concurrent calls of setStatus, whose history documents
\* are inserted in a step of their own, and PruneStatusHistory.
NextHistory ==
  \/ \E p \in Procs : SetStatusBegin(p, Keys, HistoryArgs, {FALSE}, TRUE)
  \/ \E p \in Procs : HistoryInsert(p)
  \/ \E p \in Procs : SetStatusBuild(p)
  \/ \E p \in Procs : SetStatusRun(p)
  \/ Pruner

SpecHistory == Init /\ [][NextHistory]_vars

\* statusHistory, over the history that calls of setStatus and of
\* createStatusOpWithExcitingSideEffect write
NextRead ==
  \/ Writers(Keys, StatusArgs, {FALSE}, FALSE)
  \/ StatusHistory

SpecRead == Init /\ [][NextRead]_vars

\* a status document of the second entity, as a call of setStatus left it
secondDoc == statusDoc("active", "", {}, 0, FALSE)

\* the state after both entities were added and the status of the second one
\* was set once: the second entity has two history documents
InitFault ==
  /\ statuses = [k \in Keys |-> IF k = FirstKey THEN firstDoc ELSE secondDoc]
  /\ txnRevno = [k \in Keys |-> IF k = FirstKey THEN 1 ELSE 2]
  /\ history = <<historicalStatusDoc(0, FirstKey, firstDoc),
                 historicalStatusDoc(1, "s#wp", firstDoc),
                 historicalStatusDoc(2, "s#wp", secondDoc)>>
  /\ seq = 3
  /\ now = 0
  /\ leader = TRUE
  /\ call = [p \in Procs |-> idleCall]
  /\ ncalls = 0
  /\ pruner = idlePruner
  /\ returned = noReturn
  /\ lastSet = [k \in Keys |-> IF k = FirstKey THEN {} ELSE {StatusArgsOf(secondDoc)}]
  /\ applied = [k \in Keys |-> IF k = FirstKey THEN <<>> ELSE <<1>>]

\* The history write fails: calls of setStatus whose history write can fail,
\* at st.sequence or at the insert.
NextFault ==
  \/ \E p \in Procs : SetStatusBegin(p, Keys, HistoryArgs, {FALSE}, TRUE)
  \/ \E p \in Procs : SetStatusBeginSequenceFails(p, Keys, HistoryArgs)
  \/ \E p \in Procs : HistoryInsert(p)
  \/ \E p \in Procs : HistoryInsertFails(p)
  \/ \E p \in Procs : SetStatusBuild(p)
  \/ \E p \in Procs : SetStatusRun(p)

SpecFault == Init /\ [][NextFault]_vars

\* The pruner's store fails: PruneStatusHistory, whose store operations can
\* fail, next to calls of setStatus for the first entity.
NextPruneFault ==
  \/ \E p \in Procs : SetStatusBegin(p, {FirstKey}, HistoryArgs, {FALSE}, FALSE)
  \/ \E p \in Procs : SetStatusBuild(p)
  \/ \E p \in Procs : SetStatusRun(p)
  \/ Pruner
  \/ PruneListFails
  \/ PruneOldestFails
  \/ PruneRemoveFails

SpecPruneFault == InitFault /\ [][NextPruneFault]_vars

\* a map is handed to escapeKeys
InitEscape ==
  /\ statuses = [k \in {FirstKey} |-> firstDoc]
  /\ txnRevno = [k \in Keys |-> IF k = FirstKey THEN 1 ELSE 0]
  /\ history = <<historicalStatusDoc(0, FirstKey, firstDoc)>>
  /\ seq = 1
  /\ now = 0
  /\ leader = TRUE
  /\ call = [p \in Procs |-> idleCall]
  /\ ncalls = 0
  /\ pruner = idlePruner
  /\ returned \in {[noReturn EXCEPT !.op = "input", !.args.rawData = m] :
                      m \in Maps(MaxDepth)}
  /\ lastSet = [k \in Keys |-> {}]
  /\ applied = [k \in Keys |-> <<>>]

\* escapeKeys returns the map that setStatus stores as StatusData
EscapeKeys ==
  /\ returned.op = "input"
  /\ \E e \in escapeKeys(returned.args.rawData) :
       returned' = [returned EXCEPT !.op = "escapeKeys", !.doc.StatusData = e]
  /\ UNCHANGED <<statuses, txnRevno, history, seq, now, leader, call, ncalls,
                 pruner, lastSet, applied>>

\* unescapeKeys returns the map that getStatus hands out as Data
UnescapeKeys ==
  /\ returned.op = "escapeKeys"
  /\ \E u \in unescapeKeys(returned.doc.StatusData) :
       returned' = [returned EXCEPT !.op = "unescapeKeys", !.info.Data = u]
  /\ UNCHANGED <<statuses, txnRevno, history, seq, now, leader, call, ncalls,
                 pruner, lastSet, applied>>

\* escapeKeys and unescapeKeys on their own, on the maps of Maps(MaxDepth)
NextEscape == EscapeKeys \/ UnescapeKeys

SpecEscape == InitEscape /\ [][NextEscape]_vars

\* Every operation on the two collections but PruneStatusHistory: the
\* writers, the removal of status documents, getStatus and statusHistory.
NextFrame ==
  \/ Writers(Keys, HistoryArgs, {FALSE}, FALSE)
  \/ \E k \in Keys : RemoveStatus(k)
  \/ GetStatus
  \/ StatusHistory

SpecFrame == Init /\ [][NextFrame]_vars

----------------------------------------------------------------------------
(* Properties.                                                             *)

\* occurrences of r in the sequence s
Count(s, r) == Cardinality({i \in DOMAIN s : s[i] = r})

\* the stored document of key k holds the values of the arguments a
Holds(k, a) ==
  /\ k \in DOMAIN statuses
  /\ statuses[k].Status = a.status
  /\ statuses[k].StatusInfo = a.message
  /\ statuses[k].StatusData \in escapeKeys(a.rawData)

\* a StatusInfo carries the status, message and data of the arguments a
Carries(info, a) ==
  /\ info.Status = a.status
  /\ info.Message = a.message
  /\ info.Data = a.rawData

\* a call of setStatus has just returned, after st.run ran its transaction
RanSetStatus == returned.op = "setStatus" /\ returned.ops # <<>>

\* the applied updates of other calls that were built from the txn-revno the
\* returned call built its update from
Rivals ==
  Count(applied[returned.globalKey], builtFrom(returned))
    - (IF returned.err = NoErr THEN 1 ELSE 0)

\* C1: when a call of setStatus returns whose update was built from the same
\* txn-revno as an applied update of another call (one of the two read the
\* revision before the other's update was applied), the returned call has
\* failed with NotFound of its badge, exactly one update built from that
\* revision is applied, and while that update is the latest change of the
\* document the document holds the winner's values.
C1_StaleWriterLoses ==
  (RanSetStatus /\ Rivals >= 1) =>
     /\ returned.err = NotFoundf(returned.badge)
     /\ Count(applied[returned.globalKey], builtFrom(returned)) = 1
     /\ ( /\ returned.globalKey \in DOMAIN statuses
          /\ txnRevno[returned.globalKey] = builtFrom(returned) + 1 )
        => \E a \in lastSet[returned.globalKey] : Holds(returned.globalKey, a)

\* the loser of a race returns: the winner's update is the latest change and
\* the document holds the winner's values, which are not the loser's
C1_Witness ==
  /\ RanSetStatus /\ Rivals >= 1
  /\ returned.err = NotFoundf(returned.badge)
  /\ txnRevno[returned.globalKey] = builtFrom(returned) + 1
  /\ returned.args \notin lastSet[returned.globalKey]
  /\ ~Holds(returned.globalKey, returned.args)
  /\ \E a \in lastSet[returned.globalKey] : Holds(returned.globalKey, a)

\* C2: a call of setStatus whose token was present and not valid when the
\* call started returns an error, and no step of the call changes a status
\* document or its txn-revno.
C2_InvalidTokenNoChange ==
  /\ [](returned.op = "setStatus" /\ returned.invalidAtStart
          => returned.err # NoErr)
  /\ [][\A p \in Procs :
          (call[p].invalidAtStart /\ call'[p] # call[p])
            => (statuses' = statuses /\ txnRevno' = txnRevno)]_vars

\* a call with a token that was invalid from the start has returned, on a key
\* that has a document
C2_Witness ==
  /\ returned.op = "setStatus" /\ returned.invalidAtStart
  /\ returned.globalKey \in DOMAIN statuses
  /\ returned.err = ErrInvalidated

\* the n documents of a set with the greatest identifiers
TopN(docs, n) == {d \in docs : Cardinality({e \in docs : e.Id > d.Id}) < n}

\* a call of PruneStatusHistory has just returned without error, and no
\* writer inserted a history document while it ran
PrunedAlone ==
  returned.op = "PruneStatusHistory" /\ returned.err = NoErr /\ returned.alone

\* C3: after PruneStatusHistory(N), N >= 1, with no insert of a writer during
\* the call, every entity that had more than N history documents keeps
\* exactly the N with the greatest identifiers, and every entity that had N
\* or fewer keeps all of them.
C3_PruneKeepsNewest ==
  PrunedAlone =>
    \A k \in Keys :
      LET had == Find(returned.before, k)
      IN  /\ Cardinality(had) > returned.size
               => /\ Find(history, k) = TopN(had, returned.size)
                  /\ Cardinality(Find(history, k)) = returned.size
          /\ Cardinality(had) <= returned.size => Find(history, k) = had

\* a prune that removed documents of one entity and left another entity, which
\* had no more than N documents, as it was
C3_Witness ==
  /\ PrunedAlone
  /\ \E k \in Keys :
       Cardinality(Find(returned.before, k)) > returned.size
  /\ \E k \in Keys :
       /\ Find(returned.before, k) # {}
       /\ Cardinality(Find(returned.before, k)) <= returned.size

\* what statusHistory(key, size) has to return: the documents of the key with
\* the greatest identifiers, min(size, n) of them, in strictly descending
\* order of identifier, each as its StatusInfo with unescaped data
HistoryAnswer ==
  LET k == returned.globalKey
      mine == Find(history, k)
      n == Cardinality(mine)
      docs == returned.docs
  IN  /\ returned.err = NoErr
      /\ Len(returned.infos) = Min(returned.size, n)
      /\ Len(docs) = Len(returned.infos)
      /\ \A i \in DOMAIN docs : docs[i].EntityId = k
      /\ {docs[i] : i \in DOMAIN docs} = TopN(mine, Min(returned.size, n))
      /\ \A i, j \in DOMAIN docs : i < j => docs[i].Id > docs[j].Id
      /\ \A i \in DOMAIN docs :
           returned.infos[i] \in
             {StatusInfo(docs[i].Status, docs[i].StatusInfo, d, docs[i].Updated) :
                d \in unescapeKeys(docs[i].StatusData)}

\* C4, as the claim states it: statusHistory(key, size) returns min(size, n)
\* entries, for every size.
C4_Original == returned.op = "statusHistory" => HistoryAnswer

\* C4: statusHistory(key, size) with size >= 1 returns exactly min(size, n)
\* entries of the key, n the number of its history documents: those with the
\* greatest identifiers, in strictly descending order of identifier, none of
\* another entity; with n = 0 the result is empty and there is no error.
C4_HistoryNewestFirst ==
  (returned.op = "statusHistory" /\ returned.size >= 1) => HistoryAnswer

\* statusHistory cut the documents of a key down to size, with another
\* entity's documents in the collection
C4_Witness ==
  /\ returned.op = "statusHistory" /\ returned.size >= 1
  /\ Cardinality(Find(history, returned.globalKey)) > returned.size
  /\ Len(returned.infos) = returned.size
  /\ \E i \in DOMAIN history : history[i].EntityId # returned.globalKey

\* getStatus on the key of the call that returned in the state before
GetFollows ==
  /\ returned.op = "setStatus"
  /\ returned'.op = "getStatus"
  /\ returned'.globalKey = returned.globalKey

\* C5, as the claim states it: a call of setStatus on a key with no document,
\* followed at once by getStatus on the key, gives the values of the call.
C5_Original ==
  [][(GetFollows /\ returned.missing)
       => (returned'.err = NoErr /\ Carries(returned'.info, returned.args))]_vars

\* C5: a call of setStatus that returns no error (its key has a document),
\* followed at once by getStatus on the key, gives the status, message and
\* data of the call.
C5_SetThenGet ==
  [][(GetFollows /\ returned.err = NoErr)
       => (returned'.err = NoErr /\ Carries(returned'.info, returned.args))]_vars

\* getStatus has returned the values of a call whose data has keys to escape
C5_Witness ==
  /\ returned.op = "getStatus" /\ returned.err = NoErr
  /\ returned.info.Data # {}
  /\ \E a \in lastSet[returned.globalKey] : Carries(returned.info, a)

\* C6: a call of setStatus that finds no document for its key fails with
\* NotFound of params.badge, and a document comes into existence only by an
\* insert operation that a caller of createStatusOpWithExcitingSideEffect ran.
C6_SetNeverCreates ==
  /\ []((returned.op = "setStatus"
          /\ (returned.missing \/ returned.globalKey \notin DOMAIN statuses))
         => returned.err = NotFoundf(returned.badge))
  /\ [][\A k \in Keys :
          (k \notin DOMAIN statuses /\ k \in DOMAIN statuses')
            => /\ returned'.op = "create"
               /\ returned'.globalKey = k
               /\ returned'.err = NoErr]_vars

\* setStatus has failed on a key with no document, and it left none
C6_Witness ==
  /\ returned.op = "setStatus" /\ returned.missing
  /\ returned.globalKey \notin DOMAIN statuses
  /\ returned.err = NotFoundf(returned.badge)

\* C7: getStatus(key, badge) fails with NotFound of the badge exactly when
\* the key has no document, as after its remove operation was applied, and it
\* returns no error otherwise.
C7_GetNotFoundIffAbsent ==
  returned.op = "getStatus" =>
    IF returned.globalKey \in DOMAIN statuses
      THEN returned.err = NoErr
      ELSE returned.err = NotFoundf(returned.badge)

\* getStatus fails on the key whose document was inserted, set and removed
C7_Witness ==
  /\ returned.op = "getStatus" /\ returned.globalKey = FirstKey
  /\ FirstKey \notin DOMAIN statuses
  /\ applied[FirstKey] # <<>>
  /\ returned.err = NotFoundf(returned.badge)

\* C8: after a call of setStatus took effect on a key, every getStatus on the
\* key returns the status, message and data of the latest such call, until
\* the document is removed.
C8_GetReturnsLatestSet ==
  returned.op = "getStatus" =>
    \A a \in lastSet[returned.globalKey] :
      returned.err = NoErr /\ Carries(returned.info, a)

\* getStatus returns the values of the second of two applied updates
C8_Witness ==
  /\ returned.op = "getStatus"
  /\ Len(applied[returned.globalKey]) >= 2
  /\ \E a \in lastSet[returned.globalKey] :
       a.rawData # {} /\ Carries(returned.info, a)

\* C9: of the updates of setStatus that were built from one txn-revno of a
\* document, at most one is applied.
C9_OneUpdatePerRevno ==
  \A k \in Keys : \A i, j \in DOMAIN applied[k] :
    applied[k][i] = applied[k][j] => i = j

\* an update was applied and another one, built from the same txn-revno, was not
C9_Witness ==
  /\ RanSetStatus /\ returned.err # NoErr
  /\ Count(applied[returned.globalKey], builtFrom(returned)) = 1

\* C10, as the claim states it: within an entity, the document with the
\* greater identifier was inserted later (history is in insertion order).
C10_Original ==
  \A i, j \in DOMAIN history :
    (i < j /\ history[i].EntityId = history[j].EntityId)
      => history[i].Id < history[j].Id

\* C10: within an entity the identifiers of the history documents are
\* distinct, and a call that takes its identifier from the sequence when a
\* document is already inserted gets the greater identifier: identifier order
\* is insertion order between calls that do not overlap, while two calls that
\* overlap between the sequence and the insert can insert in either order.
C10_IdOrderIsAllocationOrder ==
  /\ [](\A i, j \in DOMAIN history :
          (history[i].EntityId = history[j].EntityId
             /\ history[i].Id = history[j].Id) => i = j)
  /\ [][\A p \in Procs :
          (call[p].pc = "idle" /\ call'[p].pc # "idle")
            => \A i \in DOMAIN history : history[i].Id < call'[p].id]_vars

\* two overlapping calls inserted the documents of one entity against the
\* order of their identifiers
C10_Witness ==
  \E i, j \in DOMAIN history :
    /\ i < j
    /\ history[i].EntityId = history[j].EntityId
    /\ history[i].Id > history[j].Id

\* the update of the returned call of setStatus was applied, and it is the
\* latest change of the document
UpdateApplied ==
  /\ returned.ops # <<>>
  /\ Holds(returned.globalKey, returned.args)
  /\ txnRevno[returned.globalKey] = builtFrom(returned) + 1

\* the update of the returned call of setStatus could not be applied: there
\* was no document, or the txn-revno it was built from is not the current one
UpdateRefused ==
  \/ returned.missing
  \/ returned.globalKey \notin DOMAIN statuses
  \/ returned.ops # <<>> /\ txnRevno[returned.globalKey] # builtFrom(returned)

\* C11: a call of setStatus whose history write failed (at st.sequence or at
\* the insert) still calls its transaction source, and its result is the
\* result of the update alone: no error when the update was applied, NotFound
\* of the badge when it was refused, never the error of the history write.
C11_HistoryFailureSwallowed ==
  (returned.op = "setStatus" /\ returned.histFailed) =>
     /\ returned.missing \/ returned.ops # <<>>
     /\ IF returned.err = NoErr THEN UpdateApplied
        ELSE returned.err = NotFoundf(returned.badge) /\ UpdateRefused

\* setStatus has succeeded although its history write failed: the document
\* holds its values and the history has no document of the call
C11_Witness ==
  /\ returned.op = "setStatus" /\ returned.histFailed
  /\ returned.err = NoErr /\ UpdateApplied
  /\ \A i \in DOMAIN history :
       ~(history[i].EntityId = returned.globalKey
           /\ history[i].Status = returned.args.status)

\* the keys of the entities that come after position i in the list of the
\* returned call of PruneStatusHistory
LaterKeys ==
  {returned.globalKeys[j] : j \in {x \in DOMAIN returned.globalKeys : x > returned.i}}

\* the keys of the entities that the returned call of PruneStatusHistory was
\* done with before position i
EarlierKeys ==
  {returned.globalKeys[j] : j \in {x \in DOMAIN returned.globalKeys : x < returned.i}}

\* C12: when a store operation of PruneStatusHistory fails, the call returns
\* the error at once (no call goes on after a failure); no history document
\* of an entity that comes later in the list was deleted, and of the
\* documents of an entity pruned before the failure only those among its N
\* greatest identifiers are left.
C12_PrunerStopsOnError ==
  /\ pruner.pc # "idle" => ~pruner.failed
  /\ (returned.op = "PruneStatusHistory" /\ returned.failed) =>
       /\ returned.err = ErrStore
       /\ \A k \in LaterKeys : Find(returned.before, k) \subseteq Find(history, k)
       /\ returned.globalKeys = <<>> =>
            \A i \in DOMAIN returned.before :
              \E j \in DOMAIN history : history[j] = returned.before[i]
       /\ \A k \in EarlierKeys :
            Find(history, k) \cap Find(returned.before, k)
              \subseteq TopN(Find(returned.before, k), returned.size)

\* PruneStatusHistory has failed at its second entity: the first one lost
\* documents, the second one still has more than N
C12_Witness ==
  /\ returned.op = "PruneStatusHistory" /\ returned.failed
  /\ returned.err = ErrStore
  /\ returned.i = Len(returned.globalKeys) /\ returned.i > 1
  /\ \E k \in EarlierKeys : Find(returned.before, k) # Find(history, k)
  /\ Cardinality(Find(history, returned.globalKeys[returned.i])) > returned.size

\* the sequence a is the beginning of the sequence b
IsPrefix(a, b) == Len(a) <= Len(b) /\ SubSeq(b, 1, Len(a)) = a

\* C13: no step of setStatus, getStatus, statusHistory, of the insert or of
\* the remove operation of a status document modifies or deletes a history
\* document: each leaves the collection as it is or appends one document to
\* it (the RemoveAll of PruneStatusHistory is the one operation that deletes).
C13_HistoryImmutable == [][IsPrefix(history, history')]_vars

\* the status document of the first entity was removed and its history
\* documents are still there for statusHistory
C13_Witness ==
  /\ returned.op = "statusHistory" /\ returned.globalKey = FirstKey
  /\ FirstKey \notin DOMAIN statuses
  /\ Len(returned.infos) >= 2

\* C14: when the operation of createStatusOpWithExcitingSideEffect is run for
\* a key that has a status document, the transaction fails and the document
\* and its txn-revno are left as they were; when the key has none, the
\* document of the operation is inserted.
C14_InsertOnlyIfMissing ==
  [][\A p \in Procs :
       (call[p].pc = "op" /\ call'[p] # call[p] /\ returned'.ops # <<>>) =>
          IF call[p].globalKey \in DOMAIN statuses
            THEN /\ returned'.err # NoErr
                 /\ statuses' = statuses
                 /\ txnRevno' = txnRevno
            ELSE /\ returned'.err = NoErr
                 /\ call[p].globalKey \in DOMAIN statuses'
                 /\ statuses'[call[p].globalKey] = call[p].doc]_vars

\* the operation was run for a key whose document a call of setStatus had set:
\* it failed and the document still holds the values of setStatus
C14_Witness ==
  /\ returned.op = "create" /\ returned.ops # <<>>
  /\ returned.err # NoErr
  /\ \E a \in lastSet[returned.globalKey] : Holds(returned.globalKey, a)
  /\ statuses[returned.globalKey] # returned.doc

\* a map whose keys, at every depth, hold no escaped form of a reserved
\* character
RECURSIVE NotEscaped(_)
NotEscaped(m) ==
  \A e \in m :
    /\ \A i \in DOMAIN e.key : e.key[i] \notin {"FF0E", "FF04"}
    /\ e.value.isMap => NotEscaped(e.value.sub)

\* a map with a reserved character in a key, at some depth
RECURSIVE HasReserved(_)
HasReserved(m) ==
  \E e \in m :
    \/ \E i \in DOMAIN e.key : e.key[i] \in {".", "$"}
    \/ e.value.isMap /\ HasReserved(e.value.sub)

\* C15: for a map m whose keys hold no escaped form of a reserved character,
\* escapeKeys hands every value of m that is no map through as it is, under
\* the escaped key, and unescapeKeys(escapeKeys(m)) is m.
C15_EscapeRoundTrip ==
  NotEscaped(returned.args.rawData) =>
    /\ returned.op \in {"escapeKeys", "unescapeKeys"} =>
         \A e \in returned.args.rawData :
           ~e.value.isMap =>
              Entry(Replace(escapeReplacer, e.key), e.value)
                \in returned.doc.StatusData
    /\ returned.op = "unescapeKeys" => returned.info.Data = returned.args.rawData

\* the round trip of a map with reserved characters in the keys of a nested
\* map: the escaped map is another one, and the map comes back
C15_Witness ==
  /\ returned.op = "unescapeKeys"
  /\ NotEscaped(returned.args.rawData)
  /\ \E e \in returned.args.rawData : e.value.isMap /\ HasReserved(e.value.sub)
  /\ returned.doc.StatusData # returned.args.rawData
  /\ returned.info.Data = returned.args.rawData

\* C16: no step of a call of setStatus that carries a token changes a status
\* document or its txn-revno when the token is not valid at that step: an
\* update whose token was valid when the call started, and when the update
\* was built, is not applied once the leadership is lost.
C16_TokenCheckedAtWrite ==
  [][\A p \in Procs :
       (call[p].token /\ ~leader /\ call'[p] # call[p])
         => (statuses' = statuses /\ txnRevno' = txnRevno)]_vars

\* a call whose token was valid when it started and when its update was built
\* has failed for the token alone: the txn-revno it asserted is the current one
C16_Witness ==
  /\ RanSetStatus
  /\ returned.token /\ ~returned.invalidAtStart /\ ~leader
  /\ returned.err # NoErr
  /\ returned.globalKey \in DOMAIN statuses
  /\ txnRevno[returned.globalKey] = builtFrom(returned)
  /\ ~Holds(returned.globalKey, returned.args)

\* the history holds exactly one document with the identifier of the call c,
\* and it is the history document of the call
OneEntry(c) ==
  /\ Cardinality({i \in DOMAIN history : history[i].Id = c.id}) = 1
  /\ \E i \in DOMAIN history : history[i] = historicalStatusDoc(c.id, c.globalKey, c.doc)

\* C17: when a call of setStatus comes to its transaction source or to
\* st.run, and when the operation of createStatusOpWithExcitingSideEffect is
\* built, the history document of the call is written, one document for the
\* key of the call; it is there when the call has returned, whatever the
\* result of the write of the status document.
C17_HistoryBeforeWrite ==
  /\ \A p \in Procs : call[p].pc \in {"build", "run", "op"} => OneEntry(call[p])
  /\ returned.op \in {"setStatus", "create"} => OneEntry(returned)

\* setStatus has failed with NotFound on a key that has no status document,
\* and its history document is there
C17_Witness ==
  /\ returned.op = "setStatus" /\ returned.missing
  /\ returned.err = NotFoundf(returned.badge)
  /\ returned.globalKey \notin DOMAIN statuses
  /\ OneEntry(returned)

\* the documents of entity k in a collection, in their order
Own(coll, k) == SelectSeq(coll, LAMBDA d : d.EntityId = k)

\* what the loop body of PruneStatusHistory leaves of the documents of entity
\* k in a collection that holds no document of another entity
PruneOwn(coll, k, n) ==
  LET r == getOldestTimeToKeep(Own(coll, k), k, n)
  IN  IF r.ok THEN RemoveAll(Own(coll, k), k, r.id) ELSE Own(coll, k)

\* C18: what PruneStatusHistory(N) leaves of the documents of an entity is
\* what it leaves of them in a collection that holds these documents alone:
\* it is the same for all collections with the same documents of the entity,
\* whatever documents of other entities they hold.
C18_PrunePerEntity ==
  PrunedAlone =>
    \A k \in Keys : Own(history, k) = PruneOwn(returned.before, k, returned.size)

\* a prune that deleted a document of one entity and kept a document of
\* another entity with a smaller identifier
C18_Witness ==
  /\ PrunedAlone
  /\ \E k1, k2 \in Keys :
       /\ k1 # k2
       /\ \E d \in Find(returned.before, k1) \ Find(history, k1) :
            \E e \in Find(history, k2) : e.Id < d.Id

\* C20: when PruneStatusHistory(N) runs next to writers that insert history
\* documents, no document its RemoveAll deletes is, in the collection as it
\* is at the deletion, among the N documents of its entity with the greatest
\* identifiers.
C20_PruneSparesNewest ==
  [][pruner.pc = "remove" =>
       \A i \in DOMAIN history :
         (\A j \in DOMAIN history' : history'[j] # history[i])
           => history[i] \notin TopN(Find(history, history[i].EntityId),
                                       pruner.maxLogsPerEntity)]_vars

\* a prune during which a writer inserted a document has deleted documents
C20_Witness ==
  /\ returned.op = "PruneStatusHistory" /\ ~returned.alone
  /\ returned.err = NoErr
  /\ \E i \in DOMAIN returned.before :
       \A j \in DOMAIN history : history[j] # returned.before[i]
  /\ \E j \in DOMAIN history :
       \A i \in DOMAIN returned.before : history[j] # returned.before[i]

\* caller p takes a step of a call of setStatus
SetStatusStep(p) ==
  /\ call'[p] # call[p]
  /\ call[p].op = "setStatus" \/ call'[p].op = "setStatus"

\* the key of the call of setStatus that caller p takes a step of
StepKey(p) ==
  IF call[p].op = "setStatus" THEN call[p].globalKey ELSE call'[p].globalKey

\* C19: a step of a call of setStatus for key k leaves the status document
\* and the txn-revno of every other key as they are, neither inserts nor
\* removes a status document, and leaves the history as it is or appends one
\* document with the key k to it; the history holds at most one document
\* with the identifier of a call, whether the call succeeds or fails.
C19_SetStatusFrame ==
  /\ [][\A p \in Procs : SetStatusStep(p) =>
          /\ DOMAIN statuses' = DOMAIN statuses
          /\ \A k \in Keys \ {StepKey(p)} :
               /\ txnRevno'[k] = txnRevno[k]
               /\ k \in DOMAIN statuses => statuses'[k] = statuses[k]
          /\ \/ history' = history
             \/ /\ history' = Append(history, history'[Len(history')])
                /\ history'[Len(history')].EntityId = StepKey(p)]_vars
  /\ [](returned.op = "setStatus" =>
          Cardinality({i \in DOMAIN history : history[i].Id = returned.id}) <= 1)

\* setStatus has succeeded for the first entity while the other entity has a
\* status document and a history document of its own
C19_Witness ==
  /\ returned.op = "setStatus" /\ returned.err = NoErr
  /\ returned.globalKey = FirstKey
  /\ Keys \subseteq DOMAIN statuses
  /\ \E i \in DOMAIN history : history[i].EntityId # FirstKey

\* caller p takes a step of a call of setStatus that is not the return of the
\* call without an error
NotSuccessStep(p) ==
  /\ SetStatusStep(p)
  /\ ~(returned'.op = "setStatus" /\ returned'.err = NoErr /\ call'[p] = idleCall)

\* C21: a call of setStatus that returns an error has changed no status
\* document: the only step of a call of setStatus that changes the status
\* documents or their txn-revnos is the one in which the call returns without
\* an error, so that at the return of an error the document of the key is as
\* it was before the call or as other writers left it.
C21_ErrorLeavesRecord ==
  [][\A p \in Procs : NotSuccessStep(p) =>
        /\ statuses' = statuses
        /\ txnRevno' = txnRevno
        /\ lastSet' = lastSet]_vars

\* setStatus has returned an error because another writer's update was
\* applied after its own was built: the document of its key exists and is
\* the one the other writer left
C21_Witness ==
  /\ returned.op = "setStatus" /\ returned.err = NotFoundf(returned.badge)
  /\ ~returned.missing
  /\ returned.globalKey \in DOMAIN statuses
  /\ statuses[returned.globalKey] # returned.doc
  /\ \E a \in lastSet[returned.globalKey] :
       a # returned.args /\ Holds(returned.globalKey, a)

\* C22: when setStatus has returned without an error, the status document of
\* its key is the whole document the call built (the status, the message, the
\* escaped data and the time of the call) and its NeverSet is false; a status
\* document whose NeverSet is true has had no successful setStatus since it
\* was inserted.
C22_SetClearsNeverSet ==
  /\ (returned.op = "setStatus" /\ returned.err = NoErr) =>
        /\ returned.globalKey \in DOMAIN statuses
        /\ LET d == statuses[returned.globalKey]
           IN  /\ d = returned.doc
               /\ d.Status = returned.args.status
               /\ d.StatusInfo = returned.args.message
               /\ d.StatusData \in escapeKeys(returned.args.rawData)
               /\ ~d.NeverSet
  /\ \A k \in DOMAIN statuses : statuses[k].NeverSet => lastSet[k] = {}

\* setStatus has succeeded for the service, whose status document was
\* inserted with NeverSet true and had no update applied before this one
C22_Witness ==
  /\ returned.op = "setStatus" /\ returned.err = NoErr
  /\ returned.globalKey = "s#wp"
  /\ Len(applied["s#wp"]) = 1
  /\ "s#wp" \in DOMAIN statuses /\ ~statuses["s#wp"].NeverSet
  /\ \E d \in CreateDocs(0) : d.NeverSet

\* a call of PruneStatusHistory(N) has returned without an error that began
\* where a call of PruneStatusHistory(N) had just returned, with no insert of
\* a writer since the first of the two began
PrunedAgain ==
  /\ returned.op = "PruneStatusHistory"
  /\ returned.again /\ returned.alone /\ ~returned.failed

\* C23: PruneStatusHistory(N), N >= 1, run a second time with no write since
\* the first run began, deletes nothing: the history collection at its return
\* is the one the first run left.
C23_PruneIdempotent == PrunedAgain => history = returned.before

\* the second run of PruneStatusHistory(N) has returned after a first run that
\* deleted a document, and it found an entity with N documents or more
C23_Witness ==
  /\ PrunedAgain
  /\ \A p \in Procs : call[p].pc = "idle"
  /\ Len(history) < seq
  /\ \E k \in Keys : Cardinality(Find(history, k)) >= returned.size

====
